---- MODULE Spec2Model ----
(***************************************************************************)
(* Model of the sequential framed-echo TCP server of src/src/main.c:       *)
(* main's accept loop and serve_connection's per-connection state machine. *)
(* One action per step of the code; a step is one system call (accept,     *)
(* send, recv, close, printf) together with the code around it.            *)
(***************************************************************************)
EXTENDS Integers, Sequences, FiniteSets, TLC

(***************************************************************************)
(* Bounds of the model.                                                    *)
(***************************************************************************)
\* longest byte stream a peer sends before it closes (free inputs)
MaxLen == 3
\* number of connections the listener hands to the accept loop
MaxConns == 2

(***************************************************************************)
(* Bytes.  The peer draws its stream from a small alphabet holding the two *)
(* delimiters, the two bytes whose increment is a delimiter and the byte   *)
(* that wraps; the two example streams add ordinary letters.               *)
(***************************************************************************)
CARET == 94
DOLLAR == 36
STAR == 42
Alphabet == {35, DOLLAR, 93, CARET, 255}

\* "hello^abc$world^xy$"
ExampleStream ==
    << 104, 101, 108, 108, 111, 94, 97, 98, 99, 36,
       119, 111, 114, 108, 100, 94, 120, 121, 36 >>
\* "^ab^c$"
NestedStream == << 94, 97, 98, 94, 99, 36 >>

RECURSIVE SeqsUpTo(_)
SeqsUpTo(n) ==
    IF n = 0 THEN { <<>> }
    ELSE LET shorter == SeqsUpTo(n - 1)
         IN  shorter \cup { Append(s, b) : s \in { t \in shorter : Len(t) = n - 1 },
                                            b \in Alphabet }

\* the byte streams a peer may send on one connection
Streams == SeqsUpTo(MaxLen) \cup { ExampleStream, NestedStream }

Min(a, b) == IF a < b THEN a ELSE b

VARIABLES
    pc,               \* position of the single thread
    open_fds,         \* the process's descriptor table
    listener_socket,  \* main: listener_socket
    client_socket,    \* main/serve_connection: client_socket
    nconn,            \* connections accepted so far
    pending,          \* bytes of the current peer not yet received
    peer_stream,      \* all bytes the current peer sends (history)
    state,            \* serve_connection: state
    response_buffer,  \* serve_connection: response_buffer[0 .. response_len)
    response_len,     \* serve_connection: response_len
    i,                \* serve_connection: i
    result,           \* value returned by serve_connection ("none" before return)
    out,              \* bytes delivered to the current client
    handled,          \* <<state, byte>> for every byte whose case completed (history)
    reads,            \* recv calls issued on the current connection (history)
    writes,           \* send calls issued on the current connection (history)
    ready_sends,      \* sends of the ready byte issued on the current connection
    ended,            \* terminal event of the current connection (history)
    closes,           \* close calls per connection index (history)
    prev_ended,       \* terminal event of the last closed connection (history)
    prev_result       \* result of the last closed connection (history)

vars == << pc, open_fds, listener_socket, client_socket, nconn, pending,
           peer_stream, state, response_buffer, response_len, i, result, out,
           handled, reads, writes, ready_sends, ended, closes, prev_ended,
           prev_result >>

conn_vars == << pending, peer_stream, state, response_buffer, response_len, i,
                result, out, handled, reads, writes, ready_sends, ended >>

(***************************************************************************)
(* The code of serve_connection, as operators.                             *)
(***************************************************************************)
\* sizeof response_buffer
BUFFER_SIZE == 1024

\* mutants of Transform: the sum kept at int width; the byte sent as received
TransformNoWrap(b) == b + 1
TransformIdentity(b) == b
\* the increment saturating at 255
TransformSaturate(b) == IF b = 255 THEN 255 ELSE b + 1

\* response_buffer[i] += 1 on a uint8_t
Transform(b) == (b + 1) % 256

\* mutant of NextState: '$' opens a message as '^' does
NextStateDollarOpens(s, b) ==
    CASE s = "WAIT_FOR_MSG" -> IF b = CARET \/ b = DOLLAR THEN "IN_MSG" ELSE s
      [] s = "IN_MSG"       -> IF b = DOLLAR THEN "WAIT_FOR_MSG" ELSE s

\* the switch on state: the state after one byte
NextState(s, b) ==
    CASE s = "WAIT_FOR_MSG" -> IF b = CARET THEN "IN_MSG" ELSE s
      [] s = "IN_MSG"       -> IF b = DOLLAR THEN "WAIT_FOR_MSG" ELSE s

\* mutants of Echoes: no switch on state; '^' handled as a delimiter in a
\* message too
EchoesAnyState(s, b) == b # DOLLAR /\ b # CARET
EchoesNoCaret(s, b) == s = "IN_MSG" /\ b # DOLLAR /\ b # CARET

\* the switch on state: whether the byte is incremented and sent
Echoes(s, b) == s = "IN_MSG" /\ b # DOLLAR

\* mutant of StateAtEntry: state declared static, initialised once
StateStatic(s) == s

\* ProcessingState state = WAIT_FOR_MSG, at every call of serve_connection
StateAtEntry(s) == "WAIT_FOR_MSG"

\* mutant of StateAtRecv: state declared inside the while loop
StateResetAtRecv(s) == "WAIT_FOR_MSG"

\* state is declared before the while loop: a new recv finds it as the
\* previous chunk left it
StateAtRecv(s) == s

\* the lengths recv may return for a non-empty stream of n bytes in flight
RecvLens(n) == 1 .. Min(n, BUFFER_SIZE)

\* mutant of ServeEntry: the loop entered before the ready byte is sent
ServeEntryRecv == "recv"

\* the first statement of serve_connection
ServeEntry == "send_ready"

\* mutants of the results: a failed read handled like end of stream; a
\* failed write leaving the loop by break; end of stream returning the
\* error value
ReadErrorAsEof == client_socket
WriteErrorAsBreak == client_socket
SuccessAsError(fd) == -1
\* a failed ready-byte send reported as success
ReadyErrorAsSuccess == client_socket

\* the results serve_connection returns
ReadyErrorResult == -1
ReadErrorResult == -1
WriteErrorResult == -1
SuccessResult(fd) == fd

\* mutants of MainAfterServe: a failed connection skips the rest of the
\* body; close is left out
MainSkipsCloseOnError(r) == IF r = -1 THEN "accept" ELSE "close"
MainNeverCloses(r) == "printf"

\* mutants of MainAfterServe, the place the error paths return to: the path
\* goes back to the while loop; the path goes back to the for loop
ErrorKeepsReading(r) == IF r = -1 THEN "recv" ELSE "close"
ErrorRetriesByte(r) == IF r = -1 THEN "loop" ELSE "close"

\* main: the statement after the call of serve_connection
MainAfterServe(r) == "close"

\* the descriptors the process starts with: stdin, stdout, stderr
StdFds == {0, 1, 2}

\* socket() and accept() return the lowest descriptor not in use
LowestFree(fds) == CHOOSE n \in 0 .. Cardinality(fds) : n \notin fds /\ \A m \in 0 .. n - 1 : m \in fds

(***************************************************************************)
(* The state when main reaches its while loop: the listener is created on  *)
(* the lowest free descriptor and listening.                               *)
(***************************************************************************)
Init ==
    /\ pc = "accept"
    /\ listener_socket = LowestFree(StdFds)
    /\ open_fds = StdFds \cup { LowestFree(StdFds) }
    /\ client_socket = -1
    /\ nconn = 0
    /\ pending = <<>>
    /\ peer_stream = <<>>
    /\ state = "WAIT_FOR_MSG"
    /\ response_buffer = <<>>
    /\ response_len = 0
    /\ i = 0
    /\ result = "none"
    /\ out = <<>>
    /\ handled = <<>>
    /\ reads = 0
    /\ writes = 0
    /\ ready_sends = 0
    /\ ended = "none"
    /\ closes = [c \in 1 .. MaxConns |-> 0]
    /\ prev_ended = "none"
    /\ prev_result = "none"

(***************************************************************************)
(* main: accept.                                                           *)
(***************************************************************************)
\* accept returns -1: perror, continue
AcceptFail ==
    /\ pc = "accept"
    /\ client_socket' = -1
    /\ UNCHANGED << pc, open_fds, listener_socket, nconn, closes, conn_vars,
                    prev_ended, prev_result >>

\* accept returns a new descriptor; main logs and calls serve_connection
AcceptOk ==
    /\ pc = "accept"
    /\ nconn < MaxConns
    /\ \E s \in Streams :
          /\ pending' = s
          /\ peer_stream' = s
    /\ client_socket' = LowestFree(open_fds)
    /\ open_fds' = open_fds \cup { LowestFree(open_fds) }
    /\ nconn' = nconn + 1
    /\ pc' = ServeEntry
    /\ UNCHANGED << listener_socket, state, response_buffer, response_len, i,
                    result, out, handled, reads, writes, ready_sends, ended,
                    closes, prev_ended, prev_result >>

(***************************************************************************)
(* serve_connection: send(client_socket, "*", 1, 0).                       *)
(***************************************************************************)
SendReadyOk ==
    /\ pc = "send_ready"
    /\ out' = Append(out, STAR)
    /\ writes' = writes + 1
    /\ ready_sends' = ready_sends + 1
    /\ state' = StateAtEntry(state)
    /\ pc' = "recv"
    /\ UNCHANGED << open_fds, listener_socket, client_socket, nconn, pending,
                    peer_stream, response_buffer, response_len, i, result,
                    handled, reads, ended, closes, prev_ended, prev_result >>

\* send returns < 1: perror, return -1
SendReadyFail ==
    /\ pc = "send_ready"
    /\ writes' = writes + 1
    /\ ready_sends' = ready_sends + 1
    /\ result' = ReadyErrorResult
    /\ ended' = "ready_failed"
    /\ pc' = MainAfterServe(ReadyErrorResult)
    /\ UNCHANGED << open_fds, listener_socket, client_socket, nconn, pending,
                    peer_stream, state, response_buffer, response_len, i, out,
                    handled, reads, closes, prev_ended, prev_result >>

(***************************************************************************)
(* serve_connection: recv(client_socket, response_buffer, 1024, 0).        *)
(***************************************************************************)
\* recv returns n > 0 bytes; the for loop starts at i = 0
RecvData ==
    /\ pc = "recv"
    /\ pending # <<>>
    /\ \E n \in RecvLens(Len(pending)) :
          /\ response_buffer' = SubSeq(pending, 1, n)
          /\ response_len' = n
          /\ pending' = SubSeq(pending, n + 1, Len(pending))
    /\ i' = 0
    /\ state' = StateAtRecv(state)
    /\ reads' = reads + 1
    /\ pc' = "loop"
    /\ UNCHANGED << open_fds, listener_socket, client_socket, nconn,
                    peer_stream, result, out, handled, writes, ready_sends,
                    ended, closes, prev_ended, prev_result >>

\* recv returns 0: break, return client_socket
RecvEof ==
    /\ pc = "recv"
    /\ pending = <<>>
    /\ response_len' = 0
    /\ reads' = reads + 1
    /\ result' = SuccessResult(client_socket)
    /\ ended' = "eof"
    /\ pc' = MainAfterServe(SuccessResult(client_socket))
    /\ UNCHANGED << open_fds, listener_socket, client_socket, nconn, pending,
                    peer_stream, state, response_buffer, i, out, handled,
                    writes, ready_sends, closes, prev_ended, prev_result >>

\* recv returns < 0: perror, return -1
RecvFail ==
    /\ pc = "recv"
    /\ response_len' = -1
    /\ reads' = reads + 1
    /\ result' = ReadErrorResult
    /\ ended' = "read_failed"
    /\ pc' = MainAfterServe(ReadErrorResult)
    /\ UNCHANGED << open_fds, listener_socket, client_socket, nconn, pending,
                    peer_stream, state, response_buffer, i, out, handled,
                    writes, ready_sends, closes, prev_ended, prev_result >>

(***************************************************************************)
(* serve_connection: one iteration of the for loop.                        *)
(***************************************************************************)
\* the byte the iteration looks at
CurByte == response_buffer[i + 1]

\* mutant of AfterByte: the for loop left after its first iteration
AfterByteBreak == "recv"

\* after i++: the next iteration, or the next recv when i = response_len
AfterByte == IF i + 1 < response_len THEN "loop" ELSE "recv"

\* a byte that is not echoed: a state change at most
ConsumeByte ==
    /\ pc = "loop"
    /\ i < response_len
    /\ ~Echoes(state, CurByte)
    /\ state' = NextState(state, CurByte)
    /\ handled' = Append(handled, << state, CurByte >>)
    /\ i' = i + 1
    /\ pc' = AfterByte
    /\ UNCHANGED << open_fds, listener_socket, client_socket, nconn, pending,
                    peer_stream, response_buffer, response_len, result, out,
                    reads, writes, ready_sends, ended, closes, prev_ended,
                    prev_result >>

\* a byte that is echoed: incremented in place, then sent; send returns 1
EchoByteOk ==
    /\ pc = "loop"
    /\ i < response_len
    /\ Echoes(state, CurByte)
    /\ response_buffer' = [response_buffer EXCEPT ![i + 1] = Transform(@)]
    /\ out' = Append(out, response_buffer'[i + 1])
    /\ writes' = writes + 1
    /\ state' = NextState(state, CurByte)
    /\ handled' = Append(handled, << state, CurByte >>)
    /\ i' = i + 1
    /\ pc' = AfterByte
    /\ UNCHANGED << open_fds, listener_socket, client_socket, nconn, pending,
                    peer_stream, response_len, result, reads, ready_sends,
                    ended, closes, prev_ended, prev_result >>

\* a byte that is echoed: incremented in place; send returns < 1: perror,
\* return -1
EchoByteFail ==
    /\ pc = "loop"
    /\ i < response_len
    /\ Echoes(state, CurByte)
    /\ response_buffer' = [response_buffer EXCEPT ![i + 1] = Transform(@)]
    /\ writes' = writes + 1
    /\ result' = WriteErrorResult
    /\ ended' = "write_failed"
    /\ pc' = MainAfterServe(WriteErrorResult)
    /\ UNCHANGED << open_fds, listener_socket, client_socket, nconn, pending,
                    peer_stream, state, response_len, i, out, handled, reads,
                    ready_sends, closes, prev_ended, prev_result >>

(***************************************************************************)
(* send with flags 0 on a connection the peer has reset raises SIGPIPE;    *)
(* main installs no handler, so the default action ends the process.       *)
(***************************************************************************)
SendSigpipe ==
    /\ \/ pc = "send_ready"
       \/ pc = "loop" /\ i < response_len /\ Echoes(state, CurByte)
    /\ writes' = writes + 1
    /\ ready_sends' = IF pc = "send_ready" THEN ready_sends + 1 ELSE ready_sends
    /\ response_buffer' = IF pc = "loop"
                          THEN [response_buffer EXCEPT ![i + 1] = Transform(@)]
                          ELSE response_buffer
    /\ ended' = "sigpipe"
    /\ pc' = "killed"
    /\ UNCHANGED << open_fds, listener_socket, client_socket, nconn, pending,
                    peer_stream, state, response_len, i, result, out, handled,
                    reads, closes, prev_ended, prev_result >>

(***************************************************************************)
(* main: close(client_socket), then the closing printf.                    *)
(***************************************************************************)
Close ==
    /\ pc = "close"
    /\ open_fds' = open_fds \ { client_socket }
    /\ closes' = [closes EXCEPT ![nconn] = @ + 1]
    /\ pc' = "printf"
    \* serve_connection's frame and the connection are gone: main keeps
    \* nothing of them; the record of the finished connection moves to prev_*
    /\ prev_ended' = ended
    /\ prev_result' = result
    /\ pending' = <<>>
    /\ peer_stream' = <<>>
    /\ response_buffer' = <<>>
    /\ response_len' = 0
    /\ i' = 0
    /\ result' = "none"
    /\ out' = <<>>
    /\ handled' = <<>>
    /\ reads' = 0
    /\ writes' = 0
    /\ ready_sends' = 0
    /\ ended' = "none"
    /\ UNCHANGED << listener_socket, client_socket, nconn, state >>

\* printf with two %s conversions and one argument: the second conversion
\* reads an indeterminate pointer; the call prints and returns ...
PrintfDone ==
    /\ pc = "printf"
    /\ pc' = "accept"
    /\ UNCHANGED << open_fds, listener_socket, client_socket, nconn, closes,
                    conn_vars, prev_ended, prev_result >>

\* ... or faults on the pointer and the process ends
PrintfFault ==
    /\ pc = "printf"
    /\ pc' = "crashed"
    /\ UNCHANGED << open_fds, listener_socket, client_socket, nconn, closes,
                    conn_vars, prev_ended, prev_result >>

Next ==
    \/ AcceptFail
    \/ AcceptOk
    \/ SendReadyOk
    \/ SendReadyFail
    \/ RecvData
    \/ RecvEof
    \/ RecvFail
    \/ ConsumeByte
    \/ EchoByteOk
    \/ EchoByteFail
    \/ SendSigpipe
    \/ Close
    \/ PrintfDone
    \/ PrintfFault

Spec == Init /\ [][Next]_vars

TypeOK ==
    /\ pc \in { "accept", "send_ready", "recv", "loop", "close", "printf",
                "killed", "crashed" }
    /\ state \in { "WAIT_FOR_MSG", "IN_MSG" }
    /\ nconn \in 0 .. MaxConns

(***************************************************************************)
(* Reference definitions used by the properties below.  They restate the   *)
(* protocol; none of them uses an operator that models the code.           *)
(***************************************************************************)
\* the input bytes whose case has completed, in order
HandledBytes == [k \in 1 .. Len(handled) |-> handled[k][2]]

\* the echo the protocol asks for: (b + 1) mod 256 for every byte handled
\* in a message that is not '$'
RECURSIVE EchoOf(_)
EchoOf(h) ==
    IF h = <<>> THEN <<>>
    ELSE LET s == h[1][1]
             b == h[1][2]
         IN  (IF s = "IN_MSG" /\ b # 36 THEN << (b + 1) % 256 >> ELSE <<>>)
                 \o EchoOf(Tail(h))

\* the current connection ended with a zero-length read
AtEof == pc = "close" /\ ended = "eof"

(***************************************************************************)
(* C1.  The bytes written after the ready byte are exactly, in input       *)
(* order and once each, (b + 1) mod 256 for every input byte b handled     *)
(* while the state is IN_MSG and different from '$'; the bytes handled are  *)
(* the bytes of the peer's stream in order, all of them at end of stream;  *)
(* hello^abc$world^xy$ yields bcd then yz.                                 *)
(***************************************************************************)
C1_EchoExact ==
    /\ HandledBytes = SubSeq(peer_stream, 1, Len(handled))
    /\ out = <<>> => handled = <<>>
    /\ out # <<>> => Tail(out) = EchoOf(handled)
    /\ AtEof => Len(handled) = Len(peer_stream)
    /\ (AtEof /\ peer_stream = ExampleStream)
          => out = << 42, 98, 99, 100, 121, 122 >>

\* the example stream, received in more than two chunks, served to its end
C1_Witness ==
    AtEof /\ peer_stream = ExampleStream /\ reads > 3 /\ Len(out) = 6

(***************************************************************************)
(* C2.  Chunk-boundary invariance.  With all I/O succeeding up to a clean  *)
(* end of stream, the bytes echoed and the final state are those of the    *)
(* for loop run once over the whole stream as a single chunk, so they do   *)
(* not depend on how recv split the stream.                                *)
(***************************************************************************)
\* the for loop over one chunk c entered in state s: <<bytes sent, state>>
RECURSIVE OneChunk(_, _)
OneChunk(s, c) ==
    IF c = <<>> THEN << <<>>, s >>
    ELSE LET rest == OneChunk(NextState(s, c[1]), Tail(c))
         IN  << (IF Echoes(s, c[1]) THEN << Transform(c[1]) >> ELSE <<>>)
                    \o rest[1],
                rest[2] >>

C2_ChunkInvariance ==
    AtEof => /\ Tail(out) = OneChunk("WAIT_FOR_MSG", peer_stream)[1]
             /\ state = OneChunk("WAIT_FOR_MSG", peer_stream)[2]

\* a message opened in one chunk and echoed in later ones
C2_Witness ==
    /\ AtEof
    /\ reads >= 4
    /\ Len(out) >= 3
    /\ Len(peer_stream) = MaxLen

(***************************************************************************)
(* C3 as claimed.  The bytes '^' and '$' never appear in the stream the    *)
(* server writes to the client.                                            *)
(***************************************************************************)
C3_NoDelimiterValueInOutput ==
    \A k \in 1 .. Len(out) : out[k] # CARET /\ out[k] # DOLLAR

(***************************************************************************)
(* C3 as amended.  No delimiter of the input is written back unchanged: a  *)
(* byte is written for an input byte only as its increment, never for an   *)
(* input '$', and the values '^' and '$' are written only as the           *)
(* increments of the input bytes ']' (93) and '#' (35).                    *)
(***************************************************************************)
C3_DelimitersOnlyAsIncrements ==
    [][ (pc = "loop" /\ out' # out) =>
           LET sent == out'[Len(out')]
           IN  /\ out' = Append(out, sent)
               /\ sent # CurByte
               /\ CurByte # DOLLAR
               /\ sent = CARET => CurByte = 93
               /\ sent = DOLLAR => CurByte = 35 ]_vars

\* both delimiter values are in the output, as increments of ']' and '#'
C3_Witness ==
    /\ \E k \in 2 .. Len(out) : out[k] = CARET
    /\ \E k \in 2 .. Len(out) : out[k] = DOLLAR

(***************************************************************************)
(* C4.  The first I/O operation on a connection is the send of one '*'     *)
(* byte: no recv and no other send is issued before it, and the ready byte *)
(* is sent at most once on a connection.                                   *)
(***************************************************************************)
C4_ReadyByteFirstAndOnce ==
    /\ ready_sends <= 1
    /\ reads > 0 => ready_sends = 1 /\ out # <<>>
    /\ writes > 0 => ready_sends = 1
    /\ out # <<>> => out[1] = STAR
    /\ (ready_sends = 1 /\ writes = 1 /\ ended = "none") => out = << STAR >>
    /\ pc = "send_ready" => reads = 0 /\ writes = 0 /\ out = <<>>

\* reads and echoes have followed the one ready byte
C4_Witness ==
    reads > 1 /\ writes > 2 /\ ready_sends = 1 /\ out[1] = STAR

(***************************************************************************)
(* C5.  While the state is WAIT_FOR_MSG nothing is written: every byte     *)
(* other than '^', '$' included, is consumed with no send and no state     *)
(* change, and '^' is consumed with no send and moves the state to IN_MSG. *)
(***************************************************************************)
C5_WaitingIsSilent ==
    [][ (pc = "loop" /\ state = "WAIT_FOR_MSG") =>
           /\ out' = out
           /\ writes' = writes
           /\ i' = i + 1
           /\ handled' = Append(handled, << "WAIT_FOR_MSG", CurByte >>)
           /\ state' = IF CurByte = CARET THEN "IN_MSG" ELSE "WAIT_FOR_MSG" ]_vars

\* a '$', an ordinary byte and a '^' were consumed while waiting, silently
C5_Witness ==
    /\ out = << STAR >>
    /\ \E k \in 1 .. Len(handled) : handled[k] = << "WAIT_FOR_MSG", DOLLAR >>
    /\ \E k \in 1 .. Len(handled) : handled[k] = << "WAIT_FOR_MSG", 35 >>
    /\ \E k \in 1 .. Len(handled) : handled[k] = << "WAIT_FOR_MSG", CARET >>

(***************************************************************************)
(* C6.  A '^' received while the state is IN_MSG is ordinary data: its     *)
(* case sends 0x5F (95) and leaves the state IN_MSG, so ^ab^c$ yields the  *)
(* increments of a, b, ^ and c.                                            *)
(***************************************************************************)
C6_NestedCaretIsData ==
    [][ /\ (pc = "loop" /\ state = "IN_MSG" /\ CurByte = CARET /\ i' = i + 1)
           => out' = Append(out, 95) /\ state' = "IN_MSG"
        /\ (pc' = "close" /\ ended' = "eof" /\ peer_stream' = NestedStream)
           => out' = << STAR, 98, 99, 95, 100 >> ]_vars

\* ^ab^c$ served to its end, the nested '^' echoed as '_'
C6_Witness ==
    /\ AtEof
    /\ peer_stream = NestedStream
    /\ handled[4] = << "IN_MSG", CARET >>
    /\ out[4] = 95

(***************************************************************************)
(* C7.  A zero-length read ends serve_connection with the success result   *)
(* (the descriptor, never the error value -1) in either state; every byte  *)
(* received before it has been handled and every in-message byte echoed,   *)
(* also when the last message has no closing '$'; with an empty stream the *)
(* only byte written is the ready byte.                                    *)
(***************************************************************************)
\* the bytes of the stream that the protocol echoes, by position
EchoedPositions ==
    { k \in 1 .. Len(handled) : handled[k][1] = "IN_MSG" /\ handled[k][2] # 36 }

C7_EofIsSuccess ==
    ended = "eof" =>
        /\ pc = "close"
        /\ result = client_socket
        /\ result >= 0
        /\ result # -1
        /\ pending = <<>>
        /\ Len(handled) = Len(peer_stream)
        /\ Len(out) = 1 + Cardinality(EchoedPositions)
        /\ peer_stream = <<>> => out = << STAR >>

\* end of stream inside a message that was never closed, its bytes echoed
C7_Witness ==
    /\ ended = "eof"
    /\ state = "IN_MSG"
    /\ Len(out) >= 3
    /\ result = client_socket

\* end of stream on a connection that sent nothing
C7_WitnessEmpty ==
    ended = "eof" /\ peer_stream = <<>> /\ out = << STAR >>

(***************************************************************************)
(* C8.  A failed recv makes serve_connection return the error value, and   *)
(* the step of the failing recv leaves the bytes written as they were: the *)
(* output at return is the ready byte followed by one byte per echoed byte *)
(* of the chunks received before, every one of which has been handled.     *)
(***************************************************************************)
C8_ReadFailureKeepsOutput ==
    [][ (ended = "none" /\ ended' = "read_failed") =>
           /\ pc = "recv" /\ pc' = "close"
           /\ result' = -1
           /\ result' # client_socket
           /\ out' = out
           /\ out' # <<>>
           /\ handled' = handled
           /\ Len(handled) + Len(pending) = Len(peer_stream)
           /\ Len(out') = 1 + Cardinality(EchoedPositions) ]_vars

\* a recv failed after earlier chunks had been echoed
C8_Witness ==
    /\ ended = "read_failed"
    /\ reads >= 3
    /\ Len(out) >= 3
    /\ pending # <<>>

(***************************************************************************)
(* C9 as claimed.  The result tells a failed read from a failed write: the *)
(* caller, holding the results of two connections of which one ended by a  *)
(* failed read and the other by a failed write (the ready byte included),  *)
(* sees two different values.                                              *)
(***************************************************************************)
ReadFailure == { "read_failed" }
WriteFailure == { "write_failed", "ready_failed" }

C9_FailureKindsDistinct ==
    ( \/ prev_ended \in ReadFailure /\ ended \in WriteFailure
      \/ prev_ended \in WriteFailure /\ ended \in ReadFailure )
        => prev_result # result

(***************************************************************************)
(* C9 as amended.  serve_connection returns -1 for every failure, a failed *)
(* read, a failed echo write and a failed ready-byte send alike, and the   *)
(* descriptor, which is not negative, after a zero-length read: the result *)
(* tells failure from success, and does not tell the failures apart.       *)
(***************************************************************************)
Failure == ReadFailure \cup WriteFailure

C9_FailureIsMinusOne ==
    /\ ended \in Failure => result = -1
    /\ prev_ended \in Failure => prev_result = -1
    /\ ended = "eof" => result = client_socket /\ result >= 0
    /\ prev_ended = "eof" => prev_result >= 0
    /\ ended \in { "none", "sigpipe" } => result = "none"
    /\ (ended \in Failure /\ prev_ended \in Failure) => result = prev_result
    /\ (ended \in Failure /\ prev_ended = "eof") => result # prev_result

\* the caller has seen a failed read and then a failed write
C9_Witness ==
    prev_ended = "read_failed" /\ ended = "write_failed" /\ pc = "close"

(***************************************************************************)
(* C10.  serve_connection never closes the client socket, and main closes  *)
(* every accepted connection exactly once, after serve_connection returns, *)
(* whatever the outcome: the descriptor is open and unclosed while it is   *)
(* served and until main's close, and closed once from then on.            *)
(***************************************************************************)
Serving == pc \in { "send_ready", "recv", "loop", "close", "killed" }

C10_ClosedOnceByMain ==
    /\ \A c \in 1 .. MaxConns : closes[c] <= 1
    /\ \A c \in 1 .. MaxConns : c > nconn => closes[c] = 0
    /\ \A c \in 1 .. MaxConns : c < nconn => closes[c] = 1
    /\ (Serving /\ nconn > 0) =>
          /\ closes[nconn] = 0
          /\ client_socket \in open_fds
    /\ (~Serving /\ nconn > 0) =>
          /\ closes[nconn] = 1
          /\ open_fds = StdFds \cup { listener_socket }
    /\ pc = "printf" => prev_ended \in Failure \cup { "eof" }

\* the second connection, ended by a failed write, has just been closed
C10_Witness ==
    /\ pc = "printf"
    /\ nconn = 2
    /\ prev_ended = "write_failed"
    /\ closes[1] = 1 /\ closes[2] = 1

(***************************************************************************)
(* C11.  A connection's failure never ends the server: after               *)
(* serve_connection has returned an error, main closes the connection and  *)
(* goes on to the next accept; the process is not ended on the way.        *)
(***************************************************************************)
C11_ServerSurvivesFailure ==
    ~(pc = "crashed" /\ prev_ended \in Failure)

(***************************************************************************)
(* C12.  Connections are served strictly one at a time: accept is reached  *)
(* only with every accepted connection closed and no client descriptor     *)
(* open, and at most one client descriptor is open at any moment.          *)
(***************************************************************************)
ClientFds == open_fds \ (StdFds \cup { listener_socket })

C12_OneConnectionAtATime ==
    /\ Cardinality(ClientFds) <= 1
    /\ ClientFds \subseteq { client_socket }
    /\ pc = "accept" =>
          /\ ClientFds = {}
          /\ \A c \in 1 .. nconn : closes[c] = 1
          /\ ended = "none" /\ pending = <<>>
    /\ ClientFds # {} => pc \in { "send_ready", "recv", "loop", "close", "killed" }

\* the second connection is served on the descriptor the first one freed
C12_Witness ==
    /\ nconn = 2
    /\ pc = "loop"
    /\ closes[1] = 1
    /\ ClientFds = { LowestFree(StdFds \cup { listener_socket }) }

(***************************************************************************)
(* C13 as claimed.  The byte echoed for input position N is written before *)
(* the read that produces the input byte at position N + 1 is issued: when *)
(* the echo of position N is sent, no byte beyond position N has been      *)
(* received.                                                               *)
(***************************************************************************)
\* bytes of the stream handed over by the reads issued so far
Received == Len(peer_stream) - Len(pending)

C13_WriteBeforeNextByteRead ==
    [][ (pc = "loop" /\ writes' = writes + 1) =>
           Received <= Len(handled) + 1 ]_vars

(***************************************************************************)
(* C13 as amended.  Reads and writes are ordered chunk by chunk: a recv is *)
(* issued only when every byte of all earlier chunks has been handled and  *)
(* every send they caused has been made, and within a chunk the sends are  *)
(* made in input order; a byte is echoed before the read that produces the *)
(* first byte of a later chunk, not before the read of its own chunk.      *)
(***************************************************************************)
C13_ChunkWritesBeforeNextRead ==
    [][ /\ reads' = reads + 1 =>
              /\ pc = "recv"
              /\ Len(handled) = Received
              /\ i = response_len
              /\ writes = Len(out)
              /\ Len(out) = 1 + Cardinality(EchoedPositions)
        /\ (pc = "loop" /\ writes' = writes + 1) =>
              /\ reads' = reads
              /\ Len(handled) = Received - response_len + i
              /\ Len(handled) < Received ]_vars

\* a chunk of several bytes was echoed whole before the next recv
C13_Witness ==
    /\ pc = "recv"
    /\ reads >= 2
    /\ response_len >= 2
    /\ Len(out) >= 3
    /\ pending # <<>>

(***************************************************************************)
(* C14.  Once serve_connection has seen a zero-length read, a failed read  *)
(* or a failed write, it issues no further recv or send on the connection: *)
(* the terminal event is its last I/O operation, serve_connection has      *)
(* returned, and the only step left for the connection is main's close.    *)
(***************************************************************************)
Terminal == { "eof", "read_failed", "write_failed", "ready_failed" }

C14_NoIoAfterTerminalEvent ==
    [][ /\ ended \in Terminal =>
              /\ pc = "close"
              /\ pc' = "printf"
              /\ closes'[nconn] = closes[nconn] + 1
        /\ (ended \in Terminal /\ ended' = ended) =>
              /\ reads' = reads
              /\ writes' = writes
              /\ out' = out
              /\ pending' = pending
        /\ (ended = "none" /\ ended' \in Terminal) =>
              /\ reads' + writes' = reads + writes + 1
              /\ pc' = "close" ]_vars

\* a write failed with bytes of the chunk and of the stream still unread
C14_Witness ==
    /\ ended = "write_failed"
    /\ pc = "close"
    /\ i + 1 < response_len
    /\ pending # <<>>

(***************************************************************************)
(* C15.  When the send of an echoed byte returns an error in the middle of *)
(* a chunk, serve_connection returns -1 at once: the rest of the chunk is  *)
(* neither classified nor echoed, and the bytes written are the ready byte *)
(* and the echoes of the input before the failing byte, nothing else.      *)
(***************************************************************************)
\* the echo the protocol asks for of a stream of bytes, from its start
RECURSIVE StreamEcho(_, _)
StreamEcho(inMsg, bytes) ==
    IF bytes = <<>> THEN <<>>
    ELSE LET b == bytes[1]
         IN  IF inMsg
             THEN (IF b = 36 THEN <<>> ELSE << (b + 1) % 256 >>)
                      \o StreamEcho(b # 36, Tail(bytes))
             ELSE StreamEcho(b = 94, Tail(bytes))

\* position in the stream of the byte the for loop is at
CurPos == Received - response_len + i + 1

C15_WriteFailureAborts ==
    [][ (ended = "none" /\ ended' = "write_failed") =>
           /\ pc = "loop" /\ pc' = "close"
           /\ result' = -1
           /\ writes' = writes + 1
           /\ out' = out
           /\ handled' = handled
           /\ i' = i
           /\ state' = state
           /\ peer_stream[CurPos] = CurByte
           /\ Tail(out') = StreamEcho(FALSE, SubSeq(peer_stream, 1, CurPos - 1))
           /\ Len(handled') = CurPos - 1 ]_vars

\* the failing byte was followed in its chunk by bytes that would be echoed
C15_Witness ==
    /\ ended = "write_failed"
    /\ i + 1 < response_len
    /\ Len(out) >= 2
    /\ response_buffer[i + 2] # DOLLAR
    /\ Len(handled) = Received - response_len + i

(***************************************************************************)
(* C16.  If the send of the ready byte returns an error, serve_connection  *)
(* returns -1 with no recv issued, no other send made and nothing written. *)
(***************************************************************************)
C16_ReadyFailureReturnsAtOnce ==
    /\ ended = "ready_failed" =>
          /\ pc = "close"
          /\ result = -1
          /\ reads = 0
          /\ writes = 1 /\ ready_sends = 1
          /\ out = <<>>
          /\ handled = <<>>
          /\ pending = peer_stream
    /\ (ready_sends = 1 /\ out = <<>>) =>
          /\ ended \in { "ready_failed", "sigpipe" }
          /\ reads = 0 /\ writes = 1

\* the ready byte failed on a connection whose peer had bytes to send
C16_Witness ==
    /\ ended = "ready_failed"
    /\ result = -1
    /\ Len(pending) = MaxLen

(***************************************************************************)
(* C17.  The protocol state is always WAIT_FOR_MSG or IN_MSG, it is        *)
(* WAIT_FOR_MSG when the first recv of a connection is issued, and it      *)
(* changes only in the for loop, by WAIT_FOR_MSG -> IN_MSG on '^' and by   *)
(* IN_MSG -> WAIT_FOR_MSG on '$': every other byte and every recv, the end *)
(* of stream and the failures included, leave it as it was.                *)
(***************************************************************************)
ByteStep == pc = "loop" /\ i' = i + 1

C17_TwoStatesTwoTransitions ==
    [][ /\ state \in { "WAIT_FOR_MSG", "IN_MSG" }
        /\ state' \in { "WAIT_FOR_MSG", "IN_MSG" }
        /\ (pc = "send_ready" /\ pc' = "recv") => state' = "WAIT_FOR_MSG"
        /\ (pc # "send_ready" /\ state' # state) =>
              /\ ByteStep
              /\ \/ state = "WAIT_FOR_MSG" /\ CurByte = CARET
                 \/ state = "IN_MSG" /\ CurByte = DOLLAR
        /\ (ByteStep /\ state = "WAIT_FOR_MSG" /\ CurByte = CARET)
              => state' = "IN_MSG"
        /\ (ByteStep /\ state = "IN_MSG" /\ CurByte = DOLLAR)
              => state' = "WAIT_FOR_MSG"
        /\ pc = "recv" => state' = state ]_vars

\* both transitions were taken, in two different chunks, and a '$' and a
\* '^' were passed over in the states where they are no delimiter
C17_Witness ==
    /\ reads >= 3
    /\ \E k \in 1 .. Len(handled) : handled[k] = << "WAIT_FOR_MSG", CARET >>
    /\ \E k \in 1 .. Len(handled) : handled[k] = << "IN_MSG", DOLLAR >>
    /\ \E k \in 1 .. Len(handled) : handled[k] = << "IN_MSG", CARET >>
    /\ state = "WAIT_FOR_MSG"

(***************************************************************************)
(* C18.  The protocol state does not carry over between connections: each  *)
(* accepted connection issues its first recv in WAIT_FOR_MSG and handles   *)
(* its first byte in WAIT_FOR_MSG, also when the connection before ended   *)
(* in IN_MSG, so that nothing is echoed on a connection before its first   *)
(* '^'.                                                                    *)
(***************************************************************************)
NoCaretHandled == \A k \in 1 .. Len(handled) : handled[k][2] # CARET

C18_StatePerConnection ==
    /\ (pc = "recv" /\ reads = 0) => state = "WAIT_FOR_MSG"
    /\ handled # <<>> => handled[1][1] = "WAIT_FOR_MSG"
    /\ (pc \in { "recv", "loop" } /\ NoCaretHandled) =>
          /\ state = "WAIT_FOR_MSG"
          /\ out = << STAR >>
          /\ writes = 1

\* the connection before ended in IN_MSG (its last send failed); this one
\* has passed over bytes that would have been echoed in a message
C18_Witness ==
    /\ nconn = 2
    /\ prev_ended = "write_failed"
    /\ pc = "recv"
    /\ Len(handled) >= 2
    /\ NoCaretHandled
    /\ out = << STAR >>

(***************************************************************************)
(* The for loop over every byte value.  A connection whose ready byte has  *)
(* been sent and whose peer sends '^', then possibly a letter, then one    *)
(* byte of any value; recv splits the stream in every way.                 *)
(***************************************************************************)
ByteStreams ==
    { << CARET, b >> : b \in 0 .. 255 } \cup { << CARET, 97, b >> : b \in 0 .. 255 }

ByteInit ==
    /\ pc = "recv"
    /\ listener_socket = LowestFree(StdFds)
    /\ client_socket = LowestFree(StdFds \cup { listener_socket })
    /\ open_fds = StdFds \cup { listener_socket, client_socket }
    /\ nconn = 1
    /\ pending \in ByteStreams
    /\ peer_stream = pending
    /\ state = StateAtEntry("WAIT_FOR_MSG")
    /\ response_buffer = <<>>
    /\ response_len = 0
    /\ i = 0
    /\ result = "none"
    /\ out = << STAR >>
    /\ handled = <<>>
    /\ reads = 0
    /\ writes = 1
    /\ ready_sends = 1
    /\ ended = "none"
    /\ closes = [c \in 1 .. MaxConns |-> 0]
    /\ prev_ended = "none"
    /\ prev_result = "none"

ByteNext ==
    \/ RecvData
    \/ RecvEof
    \/ ConsumeByte
    \/ EchoByteOk

ByteSpec == ByteInit /\ [][ByteNext]_vars

(***************************************************************************)
(* C19.  The transform wraps on 8 bits: for every byte value b in 0..255   *)
(* other than '$' handled in IN_MSG the one byte sent is in 0..255 and is  *)
(* (b + 1) mod 256, so 255 is echoed as 0 and every other value as b + 1,  *)
(* whatever the byte's place in its chunk and in the stream.               *)
(***************************************************************************)
C19_WrapIncrement ==
    [][ (ByteStep /\ state = "IN_MSG" /\ CurByte # DOLLAR) =>
           LET b == CurByte
               sent == out'[Len(out')]
           IN  /\ out' = Append(out, sent)
               /\ sent \in 0 .. 255
               /\ sent = (b + 1) % 256
               /\ b = 255 => sent = 0
               /\ b < 255 => sent = b + 1
               /\ response_buffer'[i + 1] = sent ]_vars

\* 255, the third byte of a chunk, was echoed as 0
C19_Witness ==
    /\ peer_stream = << CARET, 97, 255 >>
    /\ reads = 1
    /\ i = 3
    /\ out = << STAR, 98, 0 >>

\* 255, alone in the third chunk, was echoed as 0
C19_WitnessOwnChunk ==
    /\ peer_stream = << CARET, 97, 255 >>
    /\ reads = 3
    /\ i = 1
    /\ out = << STAR, 98, 0 >>

(***************************************************************************)
(* C20.  Termination.  When the peer sends a finite stream and closes and  *)
(* every recv and send completes, serve_connection returns, after a        *)
(* zero-length read or an I/O failure only, main closes the connection and *)
(* the loop comes back to accept: the server is never left at a point      *)
(* from which it takes no further step.                                    *)
(***************************************************************************)
\* every recv and send issued so far has returned to the code
AllIoCompleted == ended # "sigpipe"

\* serve_connection returns only after a zero-length read, which the peer's
\* close alone produces, or an I/O failure
ReturnsOnlyAfterTerminalEvent ==
    /\ pc \in { "close", "printf", "crashed" } =>
          \/ ended \in Terminal
          \/ prev_ended \in Terminal
    /\ ended = "eof" => pending = <<>>

C20_ReturnsAndComesBackToAccept ==
    /\ ReturnsOnlyAfterTerminalEvent
    /\ (AllIoCompleted /\ prev_ended \notin Failure) => ENABLED Next
====
